---- MODULE Spec2Model ----
(***************************************************************************)
(* Model of the MCP tool handlers of create-t3-turbo-labrys.                *)
(*                                                                         *)
(*   packages/mcp/src/index.ts  createMcpHandler registering the tools     *)
(*                              add, subtract, multiply, divide            *)
(*   unnamed/part_002           createMcpHandler registering the tools     *)
(*                              list_posts, get_post, create_post,         *)
(*                              delete_post over the Post table            *)
(*                                                                         *)
(* A handler is built once (Init picks which createMcpHandler built it).   *)
(* Each request slot of Procs carries one tool invocation: Invoke looks    *)
(* the tool up, validates the raw arguments against the tool's inputSchema *)
(* and runs the handler up to its first await; one action per store call   *)
(* resumes it; Deliver hands the outcome to the caller and frees the slot. *)
(***************************************************************************)
EXTENDS Integers, Sequences, FiniteSets, TLC

\* ------------------------------------------------------------------ bounds
MaxNum == 3        \* arithmetic operands: the integers -MaxNum..MaxNum, 10, +-Infinity
MaxPosts == 2      \* rows ever inserted into the Post table

\* ------------------------------------------------------- JavaScript numbers
\* A JS number is a record: a finite rational n/d (d > 0, reduced), +-Infinity
\* (k = "inf", n = +-1) or NaN.  Operands are integers; only a / b leaves them.
Fin(i) == [k |-> "fin", n |-> i, d |-> 1]
PosInf == [k |-> "inf", n |-> 1, d |-> 0]
NegInf == [k |-> "inf", n |-> -1, d |-> 0]
NaN == [k |-> "nan", n |-> 0, d |-> 0]
JSONnull == [k |-> "null", n |-> 0, d |-> 0]

Abs(i) == IF i < 0 THEN -i ELSE i
Sign(i) == IF i < 0 THEN -1 ELSE IF i = 0 THEN 0 ELSE 1

RECURSIVE GCD(_, _)
GCD(x, y) == IF y = 0 THEN x ELSE GCD(y, x % y)

\* the rational n/d (d # 0) in lowest terms with a positive denominator
Frac(n, d) ==
  LET g == GCD(Abs(n), Abs(d))
  IN  [k |-> "fin", n |-> (Sign(d) * n) \div g, d |-> Abs(d) \div g]

IsFinite(x) == x.k = "fin"
IsInteger(x) == x.k = "fin" /\ x.d = 1
\* sign of a number that is not NaN
SignOf(x) == Sign(x.n)
InfOf(s) == IF s < 0 THEN NegInf ELSE PosInf

\* const result = a + b
JSAdd(a, b) ==
  CASE a.k = "nan" \/ b.k = "nan" -> NaN
    [] a.k = "inf" /\ b.k = "inf" -> IF a.n = b.n THEN a ELSE NaN
    [] a.k = "inf" -> a
    [] b.k = "inf" -> b
    [] OTHER -> Frac(a.n * b.d + b.n * a.d, a.d * b.d)

\* const result = a - b
JSSubSwapped(a, b) == JSAdd(b, [a EXCEPT !.n = -a.n])
JSSub(a, b) == JSAdd(a, [b EXCEPT !.n = -b.n])

\* const result = a * b
JSMul(a, b) ==
  CASE a.k = "nan" \/ b.k = "nan" -> NaN
    [] a.k = "inf" \/ b.k = "inf" ->
         IF SignOf(a) * SignOf(b) = 0 THEN NaN ELSE InfOf(SignOf(a) * SignOf(b))
    [] OTHER -> Frac(a.n * b.n, a.d * b.d)

\* const result = a / b
JSDiv(a, b) ==
  CASE a.k = "nan" \/ b.k = "nan" -> NaN
    [] a.k = "inf" /\ b.k = "inf" -> NaN
    [] a.k = "inf" -> InfOf(a.n * (IF SignOf(b) = 0 THEN 1 ELSE SignOf(b)))
    [] b.k = "inf" -> Fin(0)
    [] b.n = 0 -> IF a.n = 0 THEN NaN ELSE InfOf(a.n)
    [] OTHER -> Frac(a.n * b.d, a.d * b.n)

\* b === 0
IsZero(b) == b.k = "fin" /\ b.n = 0

\* ------------------------------------------------------------ JSON payloads
\* JSON.stringify(value, null, 2) as the JSON document it writes: a number
\* that is not finite is written as null, a Date as its ISO string, a key
\* whose value is undefined is left out.
Undefined == [undefined |-> TRUE]

JSONnumber(x) == IF IsFinite(x) THEN x ELSE JSONnull

toISOString(t) == ToString(t)

JSONpost(post) ==
  [id |-> post.id, title |-> post.title, content |-> post.content,
   createdAt |-> toISOString(post.createdAt)]

JSONvalue(f, v) ==
  CASE f = "result" -> JSONnumber(v)
    [] f = "operands" -> [g \in DOMAIN v |-> JSONnumber(v[g])]
    [] f \in {"post", "deletedPost"} -> JSONpost(v)
    [] f = "posts" -> [i \in 1..Len(v) |-> JSONpost(v[i])]
    [] OTHER -> v

JSONstringify(obj) ==
  LET keys == {f \in DOMAIN obj :
                 ~(f \in {"post", "deletedPost"} /\ obj[f] = Undefined)}
  IN  [f \in keys |-> JSONvalue(f, obj[f])]

\* { content: [{ type: "text", text }] }  and the same with isError: true
TextResult(obj) == [content |-> <<[type |-> "text", text |-> JSONstringify(obj)]>>]
ErrorResult(obj) ==
  [content |-> <<[type |-> "text", text |-> JSONstringify(obj)]>>, isError |-> TRUE]

\* ------------------------------------------------- arithmetic tool handlers
add(a, b) ==
  LET result == JSAdd(a, b)
  IN  TextResult([success |-> TRUE, result |-> result, operation |-> "add",
                  operands |-> [a |-> a, b |-> b]])

subtract(a, b) ==
  LET result == JSSub(a, b)
  IN  TextResult([success |-> TRUE, result |-> result, operation |-> "subtract",
                  operands |-> [a |-> a, b |-> b]])

multiply(a, b) ==
  LET result == JSMul(a, b)
  IN  TextResult([success |-> TRUE, result |-> result, operation |-> "multiply",
                  operands |-> [a |-> a, b |-> b]])

divideNoCheck(a, b) ==
  LET result == JSDiv(a, b)
  IN  TextResult([success |-> TRUE, result |-> result, operation |-> "divide",
                  operands |-> [a |-> a, b |-> b]])

divideChecksA(a, b) ==
  IF IsZero(a)
  THEN ErrorResult([success |-> FALSE,
                    error |-> <<"Division by zero is not allowed">>])
  ELSE LET result == JSDiv(a, b)
       IN  TextResult([success |-> TRUE, result |-> result, operation |-> "divide",
                       operands |-> [a |-> a, b |-> b]])

divide(a, b) ==
  IF IsZero(b)
  THEN ErrorResult([success |-> FALSE,
                    error |-> <<"Division by zero is not allowed">>])
  ELSE LET result == JSDiv(a, b)
       IN  TextResult([success |-> TRUE, result |-> result, operation |-> "divide",
                       operands |-> [a |-> a, b |-> b]])

\* ------------------------------------------------------------- input values
Procs == {"r1", "r2"}

Nums == {Fin(i) : i \in -MaxNum..MaxNum} \cup {Fin(10), PosInf, NegInf}

RECURSIVE Repeat(_, _)
Repeat(c, n) ==
  IF n = 0 THEN ""
  ELSE LET half == Repeat(c, n \div 2)
       IN  IF n % 2 = 0 THEN half \o half ELSE half \o half \o c

UuidOf(i) == "00000000-0000-4000-8000-00000000000" \o ToString(i)
Uuids == {UuidOf(i) : i \in 1..MaxPosts}
UuidIndex(u) == CHOOSE i \in 1..MaxPosts : UuidOf(i) = u

\* a raw argument value as the caller sent it: a number or a string
RawNum(x) == [t |-> "number", v |-> x]
RawStr(x) == [t |-> "string", v |-> x]

RawArith ==
  {[a |-> RawNum(x), b |-> RawNum(y)] : x \in Nums, y \in Nums}
    \cup {[a |-> RawNum(Fin(1))], [a |-> RawStr("1"), b |-> RawNum(Fin(1))],
          [a |-> RawNum(Fin(1)), b |-> RawNum(NaN)]}

\* ------------------------------------------------------------ input schemas
LimitMin == 1
LimitMax == 100
LimitDefault == 10
TextMin == 1
TextMax == 256

RawList ==
  {<<>>} \cup {[limit |-> RawNum(x)] :
                 x \in {Fin(LimitMin - 1), Fin(LimitMin), Fin(LimitMax + 1),
                        Frac(3, 2)}}

RawId == {[id |-> RawStr(u)] : u \in Uuids \cup {"not-a-uuid"}}

RawCreate ==
  {[title |-> RawStr(x), content |-> RawStr(y)] :
     x \in {"T", "", Repeat("t", TextMax + 1)}, y \in {"C"}}
    \cup {[title |-> RawStr("T"), content |-> RawStr(y)] :
            y \in {"", Repeat("c", TextMax + 1)}}

\* z.number(): a number that is not NaN
zNumber(x) == x.t = "number" /\ x.v.k # "nan"
zString(x) == x.t = "string"
\* z.string().uuid(): the strings of the identifier format are those of Uuids
zUuidAny(x) == TRUE
zUuid(x) == x.v \in Uuids

\* the keys of inputSchema, in declaration order
inputSchema(tool) ==
  CASE tool \in {"add", "subtract", "multiply", "divide"} -> <<"a", "b">>
    [] tool = "list_posts" -> <<"limit">>
    [] tool \in {"get_post", "delete_post"} -> <<"id">>
    [] tool = "create_post" -> <<"title", "content">>

\* the validator of one key
zFieldNoMax(f, x) ==
  CASE f \in {"a", "b"} -> zNumber(x)
    [] f = "limit" -> zNumber(x) /\ IsInteger(x.v) /\ x.v.n >= LimitMin
    [] f = "id" -> zString(x) /\ zUuid(x)
    [] f \in {"title", "content"} ->
         zString(x) /\ Len(x.v) >= TextMin /\ Len(x.v) <= TextMax

zField(f, x) ==
  CASE f \in {"a", "b"} -> zNumber(x)
    [] f = "limit" -> zNumber(x) /\ IsInteger(x.v)
                        /\ x.v.n >= LimitMin /\ x.v.n <= LimitMax
    [] f = "id" -> zString(x) /\ zUuid(x)
    [] f \in {"title", "content"} ->
         zString(x) /\ Len(x.v) >= TextMin /\ Len(x.v) <= TextMax

\* .optional().default(10)
zOptional(f) == f = "limit"
zDefaultMax(f) == Fin(LimitMax)
zDefault(f) == Fin(LimitDefault)

\* indexes of the keys of the schema that the raw arguments violate
Violations(tool, raw) ==
  {i \in 1..Len(inputSchema(tool)) :
     LET f == inputSchema(tool)[i]
     IN  IF f \in DOMAIN raw THEN ~zField(f, raw[f]) ELSE ~zOptional(f)}

Min(S) == CHOOSE x \in S : \A y \in S : x <= y

\* the validated arguments, defaults applied
Parse(tool, raw) ==
  [f \in {inputSchema(tool)[i] : i \in 1..Len(inputSchema(tool))} |->
     IF f \in DOMAIN raw THEN raw[f].v ELSE zDefault(f)]

\* ------------------------------------------------------- the Post table (db)
\* A row is [id, title, content, createdAt]; the store assigns id (a random
\* UUID, never one it issued before) and createdAt (its clock, which never
\* runs backwards: the time of the latest row so far, or later) on insert.
Key(post, column) == IF column = "id" THEN UuidIndex(post.id) ELSE post.createdAt

\* db.query.Post.findMany({ orderBy: desc(column), limit }): the answers the
\* store may give, rows that tie on the column coming in either order
findMany(rows, column, limit) ==
  LET n == Cardinality(rows)
      sorted == {q \in [1..n -> rows] :
                   /\ \A i, j \in 1..n : i # j => q[i] # q[j]
                   /\ \A i, j \in 1..n :
                        i < j => Key(q[i], column) >= Key(q[j], column)}
  IN  {SubSeq(q, 1, IF limit < n THEN limit ELSE n) : q \in sorted}

\* db.query.Post.findFirst({ where: eq(Post.id, id) })
findFirst(rows, id) ==
  IF \E r \in rows : r.id = id THEN CHOOSE r \in rows : r.id = id ELSE Undefined

\* db.insert(Post).values({ title, content }).returning()
insert(id, values, now) ==
  [id |-> id, title |-> values.title, content |-> values.content, createdAt |-> now]

\* db.delete(Post).where(eq(Post.id, id))
delete(rows, id) == {r \in rows : r.id # id}

\* what a store call may throw: an Error with a message, or any other value
Faults == {[isErrorObject |-> TRUE, message |-> "connection refused"],
           [isErrorObject |-> FALSE, value |-> "ECONNRESET"]}

\* --------------------------------------------------------------------- state
VARIABLES
  handler,     \* which createMcpHandler built the handler
  store,       \* rows of the Post table
  pc,          \* per request: where its invocation stands
  inv,         \* per request: the invocation [tool, raw, args]
  deletedPost, \* per request: the row delete_post read before deleting
  ret,         \* per request: what the invocation produced
  storeCalls,  \* per request: store operations issued by this invocation
  created,     \* history: rows inserted so far
  listed,      \* history: answers of list_posts since the table last changed
  relisted,    \* history, per request: its list_posts repeats a limit of listed
  thrown,      \* history, per request: what its failed store call threw
  config,      \* the argument of createMcpHandler
  env,         \* process.env when createMcpHandler ran
  options,     \* the options createMcpHandler gave the transport
  upstream,    \* sync-upstream: what upstream/main holds against this fork
  step,        \* sync-upstream: the step the job is at
  cmd,         \* sync-upstream: the command the running step is at
  job,         \* sync-upstream: the status of the job so far
  outputs,     \* sync-upstream: the step outputs written to $GITHUB_OUTPUT
  git,         \* sync-upstream: the checkout and its remote branch
  tools,       \* sync-upstream: what the setup steps installed on the runner
  ran,         \* sync-upstream, history: the steps that ran (were not skipped)
  pr,          \* sync-upstream: the pull request the run opened
  issue        \* sync-upstream: the issue the run opened

\* the run of the sync-upstream workflow
workflow == <<upstream, step, cmd, job, outputs, git, tools, ran, pr, issue>>

\* the handler and its requests
server == <<handler, store, pc, inv, deletedPost, ret, storeCalls, created, listed,
            relisted, thrown, config, env, options>>

\* what no tool handler reads or writes
outside == <<config, env, options, workflow>>

vars == <<handler, store, pc, inv, deletedPost, ret, storeCalls, created, listed,
          relisted, thrown, outside>>

\* identifiers the store has generated so far
issued == {r.id : r \in created}
\* the createdAt of the latest row inserted so far
latest == IF created = {} THEN 0
          ELSE CHOOSE t \in {r.createdAt : r \in created} :
                 \A r \in created : r.createdAt <= t

Handlers == {"packages/mcp/src/index.ts", "unnamed/part_002"}

\* the tools each createMcpHandler registers
registerToolAll(h) ==
  {"add", "subtract", "multiply", "divide",
   "list_posts", "get_post", "create_post", "delete_post"}

registerToolNoDelete(h) ==
  IF h = "packages/mcp/src/index.ts"
  THEN {"add", "subtract", "multiply", "divide"}
  ELSE {"list_posts", "get_post", "create_post"}

registerTool(h) ==
  IF h = "packages/mcp/src/index.ts"
  THEN {"add", "subtract", "multiply", "divide"}
  ELSE {"list_posts", "get_post", "create_post", "delete_post"}

\* ------------------------------------------------ createMcpHandler(config?)
\* A configuration is the record of the fields the caller supplied: a field
\* left out (or undefined) is not in its domain, and createMcpHandler() with no
\* argument at all is Undefined, every field of which config?. reads as left out.
Field(f, values) == {<<>>} \cup {f :> v : v \in values}

MaxDurationDefault == 60

Configs ==
  {Undefined} \cup
  {a @@ b @@ c @@ d :
     a \in Field("redisUrl", {"redis://config"}),
     b \in Field("basePath", {"/mcp", ""}),
     c \in Field("maxDuration", {Fin(0), Fin(300)}),
     d \in Field("verboseLogs", {TRUE, FALSE})}

\* process.env: NODE_ENV and REDIS_URL, each set or not
Envs ==
  {a @@ b : a \in Field("NODE_ENV", {"development", "production"}),
            b \in Field("REDIS_URL", {"redis://env"})}

\* process.env.NODE_ENV === "development"
IsDevelopment(e) == "NODE_ENV" \in DOMAIN e /\ e.NODE_ENV = "development"

\* the options object createMcpHandler passes to the transport's createHandler
\* (a key whose value is undefined is left out)
createMcpHandlerOr(cfg, e) ==
  (IF "redisUrl" \in DOMAIN cfg THEN "redisUrl" :> cfg.redisUrl
   ELSE IF "REDIS_URL" \in DOMAIN e THEN "redisUrl" :> e.REDIS_URL ELSE <<>>)
  @@ [basePath |-> IF "basePath" \in DOMAIN cfg /\ cfg.basePath # ""
                   THEN cfg.basePath ELSE "/api",
      maxDuration |-> IF "maxDuration" \in DOMAIN cfg /\ cfg.maxDuration # Fin(0)
                      THEN cfg.maxDuration ELSE Fin(MaxDurationDefault),
      verboseLogs |-> IF "verboseLogs" \in DOMAIN cfg /\ cfg.verboseLogs
                      THEN cfg.verboseLogs ELSE IsDevelopment(e)]

createMcpHandler(cfg, e) ==
  (IF "redisUrl" \in DOMAIN cfg THEN "redisUrl" :> cfg.redisUrl
   ELSE IF "REDIS_URL" \in DOMAIN e THEN "redisUrl" :> e.REDIS_URL ELSE <<>>)
  @@ [basePath |-> IF "basePath" \in DOMAIN cfg THEN cfg.basePath ELSE "/api",
      maxDuration |-> IF "maxDuration" \in DOMAIN cfg
                      THEN cfg.maxDuration ELSE Fin(MaxDurationDefault),
      verboseLogs |-> IF "verboseLogs" \in DOMAIN cfg
                      THEN cfg.verboseLogs ELSE IsDevelopment(e)]

\* the configuration apps/nextjs/src/app/api/mcp/route.ts supplies
route(e) ==
  (IF "REDIS_URL" \in DOMAIN e THEN "redisUrl" :> e.REDIS_URL ELSE <<>>)
  @@ [basePath |-> "/api", maxDuration |-> Fin(60), verboseLogs |-> IsDevelopment(e)]

\* the environment of a production deployment without Redis
Production == "NODE_ENV" :> "production"

NoInvocation == [tool |-> "none"]
NoResult == [none |-> TRUE]
NoFault == [none |-> TRUE]

\* ------------------------------------------ .github/workflows/sync-upstream.yml
\* the files of the repository that the fork and upstream may both have changed
Files == {"README.md", "package.json", "pnpm-lock.yaml", "turbo.json"}

\* what `git merge upstream/main` will meet: nothing new, a clean merge, or
\* conflicts in some files
Upstreams ==
  {[merge |-> "none"], [merge |-> "clean"]}
  \cup {[merge |-> "conflict", files |-> S] : S \in (SUBSET Files) \ {{}}}

\* no output written yet: ${{ steps.X.outputs.Y }} of it is the empty string
NoOutputs ==
  [already_synced |-> "", merge_status |-> "", only_lockfile |-> "",
   conflicted_files |-> <<>>, resolution_status |-> ""]

\* the checkout as actions/checkout leaves it
Checkout ==
  [branch |-> "main", merging |-> FALSE, unmerged |-> {}, aborted |-> FALSE,
   lockfile |-> "ours", committed |-> FALSE, pushed |-> FALSE]

NoPullRequest == [created |-> FALSE]

\* no run of the workflow has been triggered
NotTriggered ==
  /\ upstream = [merge |-> "none"]
  /\ step = "queued"
  /\ cmd = "start"
  /\ job = "success"
  /\ outputs = NoOutputs
  /\ git = Checkout
  /\ tools = {}
  /\ ran = {}
  /\ pr = NoPullRequest
  /\ issue = FALSE

\* no request has arrived and the Post table is empty
Idle ==
  /\ store = {}
  /\ pc = [p \in Procs |-> "idle"]
  /\ inv = [p \in Procs |-> NoInvocation]
  /\ deletedPost = [p \in Procs |-> Undefined]
  /\ ret = [p \in Procs |-> NoResult]
  /\ storeCalls = [p \in Procs |-> <<>>]
  /\ created = {}
  /\ listed = {}
  /\ relisted = [p \in Procs |-> FALSE]
  /\ thrown = [p \in Procs |-> NoFault]

Init ==
  /\ handler \in Handlers
  /\ Idle
  /\ env = Production
  /\ config = route(env)
  /\ options = createMcpHandler(config, env)
  /\ NotTriggered

\* ------------------------------------------------------------------ dispatch
\* the first await of a tool's handler ("returned" for the synchronous tools)
FirstAwait(tool) ==
  CASE tool = "list_posts" -> "findMany"
    [] tool = "get_post" -> "findFirst"
    [] tool = "create_post" -> "insert"
    [] tool = "delete_post" -> "findFirst"
    [] OTHER -> "returned"

\* the result of a synchronous handler
RunSync(tool, args) ==
  CASE tool = "add" -> add(args.a, args.b)
    [] tool = "subtract" -> subtract(args.a, args.b)
    [] tool = "multiply" -> multiply(args.a, args.b)
    [] tool = "divide" -> divide(args.a, args.b)
    [] OTHER -> NoResult

\* An outcome goes back to the caller as soon as it is produced: while one is
\* waiting to be delivered nothing else is scheduled.
Quiet == \A q \in Procs : pc[q] \notin {"returned", "rejected", "threw"}

\* the raw arguments callers send with a tool name
RawArgs(tool) ==
  CASE tool \in {"add", "subtract", "multiply", "divide"} -> RawArith
    [] tool = "list_posts" -> RawList
    [] tool \in {"get_post", "delete_post"} -> RawId
    [] tool = "create_post" -> RawCreate
    [] OTHER -> {<<>>}

\* One tool call arriving on request p: registry lookup, validation of the raw
\* arguments, defaults, then the handler up to its first await.
Invoke(p, tool) ==
  /\ Quiet
  /\ pc[p] = "idle"
  /\ IF tool \notin registerTool(handler)
     THEN /\ pc' = [pc EXCEPT ![p] = "rejected"]
          /\ inv' = [inv EXCEPT ![p] = [tool |-> tool]]
          /\ ret' = [ret EXCEPT ![p] = [rejected |-> "UnknownTool"]]
     ELSE \E raw \in RawArgs(tool) :
            IF Violations(tool, raw) # {}
            THEN /\ pc' = [pc EXCEPT ![p] = "rejected"]
                 /\ inv' = [inv EXCEPT ![p] = [tool |-> tool, raw |-> raw]]
                 /\ ret' = [ret EXCEPT ![p] =
                              [rejected |-> "InvalidArguments",
                               field |-> inputSchema(tool)[Min(Violations(tool, raw))]]]
            ELSE LET args == Parse(tool, raw)
                 IN  /\ pc' = [pc EXCEPT ![p] = FirstAwait(tool)]
                     /\ inv' = [inv EXCEPT ![p] =
                                  [tool |-> tool, raw |-> raw, args |-> args]]
                     /\ ret' = [ret EXCEPT ![p] = RunSync(tool, args)]
  /\ UNCHANGED <<outside, thrown, handler, store, deletedPost, storeCalls, created, listed, relisted>>

CallAdd(p) == Invoke(p, "add")
CallSubtract(p) == Invoke(p, "subtract")
CallMultiply(p) == Invoke(p, "multiply")
CallDivide(p) == Invoke(p, "divide")
CallListPosts(p) == Invoke(p, "list_posts")
CallGetPost(p) == Invoke(p, "get_post")
CallDeletePost(p) == Invoke(p, "delete_post")
CallUnknown(p) == Invoke(p, "unknown_tool_xyz")

\* create_post is accepted while the store can still issue an identifier for it
Inserting == {q \in Procs : pc[q] = "insert"}
CallCreatePost(p) ==
  /\ Cardinality(issued) + Cardinality(Inserting) < MaxPosts
  /\ Invoke(p, "create_post")

\* ------------------------------------------------------ post tool handlers
\* error instanceof Error ? error.message : String(error)
JSString(value) == value
errorMessageUnknown(error) ==
  IF error.isErrorObject THEN <<error.message>> ELSE <<"Unknown error">>
errorMessage(error) ==
  IF error.isErrorObject THEN <<error.message>> ELSE <<JSString(error.value)>>

\* the catch block of a post tool handler
catchEmpty(error) == [content |-> <<>>, isError |-> TRUE]
catch(error) == ErrorResult([success |-> FALSE, error |-> errorMessage(error)])

\* whether the await a handler is suspended at lies inside its try block
InTryOnlyFirst(tool, await) == await # "delete"
InTry(tool, await) == TRUE

\* orderBy: desc(Post.id)
listPostsOrderByCreatedAt == "createdAt"
listPostsOrderBy == "id"

\* the results the handlers build (a message is the sequence of the pieces of
\* its template literal)
listPostsResultTotal(posts) ==
  TextResult([success |-> TRUE, count |-> Cardinality(created), posts |-> posts])

listPostsResult(posts) ==
  TextResult([success |-> TRUE, count |-> Len(posts), posts |-> posts])

notFoundResultNoId(id) ==
  ErrorResult([success |-> FALSE, error |-> <<"Post not found">>])

notFoundResultNoFlag(id) ==
  TextResult([success |-> FALSE, error |-> <<"Post with ID ", id, " not found">>])

notFoundResult(id) ==
  ErrorResult([success |-> FALSE, error |-> <<"Post with ID ", id, " not found">>])

getPostResultInverted(id, post) ==
  IF post # Undefined
  THEN notFoundResult(id)
  ELSE TextResult([success |-> TRUE, post |-> post])

getPostResult(id, post) ==
  IF post = Undefined
  THEN notFoundResult(id)
  ELSE TextResult([success |-> TRUE, post |-> post])

createPostResult(newPost) == TextResult([success |-> TRUE, post |-> newPost])

deletePostResult(id, deleted) ==
  TextResult([success |-> TRUE,
              message |-> <<"Post ", id, " deleted successfully">>,
              deletedPost |-> deleted])

\* a store call of request p has settled: the call is logged
Settle(p, op, threw) ==
  /\ Quiet
  /\ storeCalls' = [storeCalls EXCEPT ![p] = Append(@, [op |-> op, threw |-> threw])]

Return(p, result) ==
  /\ pc' = [pc EXCEPT ![p] = "returned"]
  /\ ret' = [ret EXCEPT ![p] = result]

\* list_posts resumes with the answer of findMany
ListPosts(p) ==
  /\ pc[p] = "findMany"
  /\ \E posts \in findMany(store, listPostsOrderBy, inv[p].args.limit.n) :
       /\ Return(p, listPostsResult(posts))
       /\ listed' = listed \cup {[limit |-> inv[p].args.limit.n,
                                  result |-> listPostsResult(posts)]}
  /\ relisted' = [relisted EXCEPT ![p] = \E x \in listed : x.limit = inv[p].args.limit.n]
  /\ Settle(p, "findMany", FALSE)
  /\ UNCHANGED <<outside, thrown, handler, store, inv, deletedPost, created>>

\* get_post resumes with the answer of findFirst
GetPostConsume(p) ==
  /\ pc[p] = "findFirst" /\ inv[p].tool = "get_post"
  /\ LET id == inv[p].args.id
         post == findFirst(store, id)
     IN  /\ Return(p, getPostResult(id, post))
         /\ store' = delete(store, id)
  /\ Settle(p, "findFirst", FALSE)
  /\ UNCHANGED <<outside, thrown, handler, inv, deletedPost, created, listed, relisted>>

GetPost(p) ==
  /\ pc[p] = "findFirst" /\ inv[p].tool = "get_post"
  /\ LET id == inv[p].args.id
         post == findFirst(store, id)
     IN  Return(p, getPostResult(id, post))
  /\ Settle(p, "findFirst", FALSE)
  /\ UNCHANGED <<outside, thrown, handler, store, inv, deletedPost, created, listed, relisted>>

\* create_post resumes with the row the insert returned
CreatePost(p) ==
  /\ pc[p] = "insert"
  /\ \E id \in Uuids \ issued, now \in {latest, latest + 1} :
       LET newPost == insert(id, [title |-> inv[p].args.title,
                                  content |-> inv[p].args.content], now)
       IN  /\ store' = store \cup {newPost}
           /\ created' = created \cup {newPost}
           /\ Return(p, createPostResult(newPost))
           /\ Settle(p, "insert", FALSE)
  /\ listed' = {}
  /\ UNCHANGED <<outside, thrown, handler, inv, deletedPost, relisted>>

\* delete_post resumes with the answer of findFirst: not found, or on to delete
DeletePostFindUnchecked(p) ==
  /\ pc[p] = "findFirst" /\ inv[p].tool = "delete_post"
  /\ pc' = [pc EXCEPT ![p] = "delete"]
  /\ deletedPost' = [deletedPost EXCEPT ![p] = findFirst(store, inv[p].args.id)]
  /\ Settle(p, "findFirst", FALSE)
  /\ UNCHANGED <<outside, thrown, handler, store, inv, ret, created, listed, relisted>>

DeletePostFind(p) ==
  /\ pc[p] = "findFirst" /\ inv[p].tool = "delete_post"
  /\ LET id == inv[p].args.id
         found == findFirst(store, id)
     IN  IF found = Undefined
         THEN /\ Return(p, notFoundResult(id))
              /\ UNCHANGED deletedPost
         ELSE /\ pc' = [pc EXCEPT ![p] = "delete"]
              /\ deletedPost' = [deletedPost EXCEPT ![p] = found]
              /\ UNCHANGED ret
  /\ Settle(p, "findFirst", FALSE)
  /\ UNCHANGED <<outside, thrown, handler, store, inv, created, listed, relisted>>

\* delete_post resumes after the delete and reports the row it read before
DeletePostDeleteAll(p) ==
  /\ pc[p] = "delete"
  /\ LET id == inv[p].args.id
     IN  /\ store' = {}
         /\ Return(p, deletePostResult(id, deletedPost[p]))
         /\ Settle(p, "delete", FALSE)
         /\ listed' = {}
  /\ UNCHANGED <<outside, thrown, handler, inv, deletedPost, created, relisted>>

DeletePostDelete(p) ==
  /\ pc[p] = "delete"
  /\ LET id == inv[p].args.id
     IN  /\ store' = delete(store, id)
         /\ Return(p, deletePostResult(id, deletedPost[p]))
         /\ Settle(p, "delete", FALSE)
         /\ listed' = IF delete(store, id) = store THEN listed ELSE {}
  /\ UNCHANGED <<outside, thrown, handler, inv, deletedPost, created, relisted>>

\* the store call a handler is suspended at throws
StoreFaultRetry(p) ==
  /\ pc[p] \in {"findMany", "findFirst", "insert", "delete"}
  /\ Len(storeCalls[p]) < 2
  /\ \E error \in Faults : thrown' = [thrown EXCEPT ![p] = error]
  /\ Settle(p, pc[p], TRUE)
  /\ UNCHANGED <<outside, handler, store, pc, inv, ret, deletedPost, created, listed,
                 relisted>>

StoreFault(p) ==
  /\ pc[p] \in {"findMany", "findFirst", "insert", "delete"}
  /\ \E error \in Faults :
       /\ thrown' = [thrown EXCEPT ![p] = error]
       /\ IF InTry(inv[p].tool, pc[p])
          THEN Return(p, catch(error))
          ELSE /\ pc' = [pc EXCEPT ![p] = "threw"]
               /\ ret' = [ret EXCEPT ![p] = [thrown |-> error]]
  /\ Settle(p, pc[p], TRUE)
  /\ UNCHANGED <<outside, handler, store, inv, deletedPost, created, listed, relisted>>

\* the transport hands the outcome to the caller; the request slot is free again
Deliver(p) ==
  /\ pc[p] \in {"returned", "rejected", "threw"}
  /\ pc' = [pc EXCEPT ![p] = "idle"]
  /\ inv' = [inv EXCEPT ![p] = NoInvocation]
  /\ ret' = [ret EXCEPT ![p] = NoResult]
  /\ deletedPost' = [deletedPost EXCEPT ![p] = Undefined]
  /\ storeCalls' = [storeCalls EXCEPT ![p] = <<>>]
  /\ relisted' = [relisted EXCEPT ![p] = FALSE]
  /\ thrown' = [thrown EXCEPT ![p] = NoFault]
  /\ UNCHANGED <<outside, handler, store, created, listed>>

Next ==
  \E p \in Procs :
       \/ CallAdd(p) \/ CallSubtract(p) \/ CallMultiply(p) \/ CallDivide(p)
       \/ CallListPosts(p) \/ CallGetPost(p) \/ CallCreatePost(p)
       \/ CallDeletePost(p) \/ CallUnknown(p)
       \/ ListPosts(p) \/ GetPost(p) \/ CreatePost(p)
       \/ DeletePostFind(p) \/ DeletePostDelete(p)
       \/ StoreFault(p) \/ Deliver(p)

Spec == Init /\ [][Next]_vars

\* ---------------------------------------------- handlers of any configuration
\* createMcpHandler called with any configuration (route.ts's among them) in
\* any environment, then tool calls on the handler it built, the Post table
\* staying empty
InitConfig ==
  /\ handler \in Handlers
  /\ Idle
  /\ env \in Envs
  /\ config \in Configs \cup {route(env)}
  /\ options = createMcpHandler(config, env)
  /\ NotTriggered

NextConfig ==
  \E p \in Procs :
       \/ CallAdd(p) \/ CallSubtract(p) \/ CallMultiply(p) \/ CallDivide(p)
       \/ CallListPosts(p) \/ CallGetPost(p) \/ CallDeletePost(p)
       \/ ListPosts(p) \/ GetPost(p) \/ DeletePostFind(p)
       \/ StoreFault(p) \/ Deliver(p)

SpecConfig == InitConfig /\ [][NextConfig]_vars

\* ------------------------------------------------- a run of sync-upstream
\* The job's steps run in the order of the file. An `if:` that calls no status
\* function holds only while no earlier step has failed; a run: script stops
\* at its first failing command and fails the step.
IfAlways(condition) == condition
If(condition) == job = "success" /\ condition

StepAfter(s) ==
  CASE s = "merge" -> "analyze"
    [] s = "analyze" -> "setup_node"
    [] s = "setup_node" -> "setup_pnpm"
    [] s = "setup_pnpm" -> "auto_resolve"
    [] s = "auto_resolve" -> "create_pr"
    [] s = "create_pr" -> "create_issue"
    [] s = "create_issue" -> "done"

\* the step is over: on to the next one
Advance == step' = StepAfter(step) /\ cmd' = "start"
Skip == Advance /\ UNCHANGED <<job, outputs, git, tools, ran, pr, issue>>
Fail == Advance /\ job' = "failure"

\* BRANCH_NAME="sync-upstream-$(date +%Y%m%d-%H%M%S)"
BRANCH_NAME == "sync-upstream-20251117-020000"

\* git diff --name-only --diff-filter=U: the unmerged paths, one a line, in
\* path order
PathOrder == <<"README.md", "package.json", "pnpm-lock.yaml", "turbo.json">>
NameOnly(paths) == SelectSeq(PathOrder, LAMBDA f : f \in paths)

\* [ "$CONFLICTED_FILES" = "pnpm-lock.yaml" ]
OnlyLockfileAmong(CONFLICTED_FILES) ==
  \E i \in 1..Len(CONFLICTED_FILES) : CONFLICTED_FILES[i] = "pnpm-lock.yaml"
OnlyLockfile(CONFLICTED_FILES) == CONFLICTED_FILES = <<"pnpm-lock.yaml">>

\* the run is triggered (schedule or workflow_dispatch); the check step has
\* written already_synced: true when upstream/main holds nothing new
InitSync ==
  /\ handler = "packages/mcp/src/index.ts"
  /\ Idle
  /\ env = Production
  /\ config = route(env)
  /\ options = createMcpHandler(config, env)
  /\ upstream \in Upstreams
  /\ step = "merge"
  /\ cmd = "start"
  /\ job = "success"
  /\ outputs = [NoOutputs EXCEPT
                  !.already_synced = IF upstream.merge = "none" THEN "true" ELSE "false"]
  /\ git = Checkout
  /\ tools = {}
  /\ ran = {}
  /\ pr = NoPullRequest
  /\ issue = FALSE

\* step "Create sync branch and merge upstream", up to the result of git merge
CreateSyncBranchAndMergeUpstream ==
  /\ step = "merge" /\ cmd = "start"
  /\ IF ~If(outputs.already_synced = "false")
     THEN Skip
     ELSE /\ ran' = ran \cup {"merge"}
          /\ IF upstream.merge = "clean"
             THEN /\ git' = [git EXCEPT !.branch = BRANCH_NAME, !.committed = TRUE]
                  /\ outputs' = [outputs EXCEPT !.merge_status = "success"]
                  /\ cmd' = "git push"
                  /\ UNCHANGED step
             ELSE /\ git' = [git EXCEPT
                               !.branch = BRANCH_NAME,
                               !.merging = TRUE,
                               !.unmerged = upstream.files,
                               !.lockfile = IF "pnpm-lock.yaml" \in upstream.files
                                            THEN "conflicted" ELSE @]
                  /\ outputs' = [outputs EXCEPT !.merge_status = "conflict"]
                  /\ Advance
          /\ UNCHANGED <<job, tools, pr, issue>>
  /\ UNCHANGED <<server, upstream>>

\* the same step: git push origin $BRANCH_NAME after a clean merge
MergePush ==
  /\ step = "merge" /\ cmd = "git push"
  /\ \E pushed \in BOOLEAN :
       IF pushed
       THEN git' = [git EXCEPT !.pushed = TRUE] /\ Advance /\ UNCHANGED job
       ELSE Fail /\ UNCHANGED git
  /\ UNCHANGED <<server, upstream, outputs, tools, ran, pr, issue>>

\* step "Analyze conflicts"
AnalyzeConflictsNoAbort ==
  /\ step = "analyze"
  /\ IF ~If(outputs.already_synced = "false" /\ outputs.merge_status = "conflict")
     THEN Skip
     ELSE LET CONFLICTED_FILES == NameOnly(git.unmerged)
          IN  /\ outputs' = [outputs EXCEPT
                               !.only_lockfile = IF OnlyLockfile(CONFLICTED_FILES)
                                                 THEN "true" ELSE "false",
                               !.conflicted_files = CONFLICTED_FILES]
              /\ ran' = ran \cup {"analyze"}
              /\ Advance
              /\ UNCHANGED <<job, git, tools, pr, issue>>
  /\ UNCHANGED <<server, upstream>>

AnalyzeConflicts ==
  /\ step = "analyze"
  /\ IF ~If(outputs.already_synced = "false" /\ outputs.merge_status = "conflict")
     THEN Skip
     ELSE LET CONFLICTED_FILES == NameOnly(git.unmerged)
          IN  /\ outputs' = [outputs EXCEPT
                               !.only_lockfile = IF OnlyLockfile(CONFLICTED_FILES)
                                                 THEN "true" ELSE "false",
                               !.conflicted_files = CONFLICTED_FILES]
              /\ git' = IF ~OnlyLockfile(CONFLICTED_FILES)
                        THEN [git EXCEPT !.merging = FALSE, !.unmerged = {},
                                         !.aborted = TRUE, !.lockfile = "ours"]
                        ELSE git
              /\ ran' = ran \cup {"analyze"}
              /\ Advance
              /\ UNCHANGED <<job, tools, pr, issue>>
  /\ UNCHANGED <<server, upstream>>

\* steps "Setup Node.js" and "Setup pnpm"
Setup(id, tool) ==
  /\ step = id
  /\ IF ~If(outputs.already_synced = "false" /\ outputs.only_lockfile = "true")
     THEN Skip
     ELSE /\ tools' = tools \cup {tool}
          /\ ran' = ran \cup {id}
          /\ Advance
          /\ UNCHANGED <<job, outputs, git, pr, issue>>
  /\ UNCHANGED <<server, upstream>>

SetupNode == Setup("setup_node", "node")
SetupPnpm == Setup("setup_pnpm", "pnpm")

\* step "Auto-resolve lockfile conflict", one action a command of its script
Running(id, command) == step = id /\ cmd = command
Then(command) == cmd' = command /\ UNCHANGED <<step, job>>

\* git checkout --theirs pnpm-lock.yaml
AutoResolveCheckout ==
  /\ Running("auto_resolve", "start")
  /\ IF ~If(outputs.already_synced = "false" /\ outputs.only_lockfile = "true")
     THEN Skip
     ELSE /\ git' = [git EXCEPT !.lockfile = "theirs"]
          /\ ran' = ran \cup {"auto_resolve"}
          /\ Then("pnpm install")
          /\ UNCHANGED <<outputs, tools, pr, issue>>
  /\ UNCHANGED <<server, upstream>>

\* pnpm install: updates the lockfile, or fails
AutoResolveInstall ==
  /\ Running("auto_resolve", "pnpm install")
  /\ \E installed \in BOOLEAN :
       IF installed /\ "pnpm" \in tools
       THEN git' = [git EXCEPT !.lockfile = "installed"] /\ Then("git add")
       ELSE Fail /\ UNCHANGED git
  /\ UNCHANGED <<server, upstream, outputs, tools, ran, pr, issue>>

\* git add pnpm-lock.yaml
AutoResolveAdd ==
  /\ Running("auto_resolve", "git add")
  /\ git' = [git EXCEPT !.unmerged = @ \ {"pnpm-lock.yaml"}]
  /\ Then("git commit")
  /\ UNCHANGED <<server, upstream, outputs, tools, ran, pr, issue>>

\* git commit --no-edit: concludes the merge unless a path is still unmerged
AutoResolveCommit ==
  /\ Running("auto_resolve", "git commit")
  /\ IF git.merging /\ git.unmerged = {}
     THEN git' = [git EXCEPT !.merging = FALSE, !.committed = TRUE] /\ Then("git push")
     ELSE Fail /\ UNCHANGED git
  /\ UNCHANGED <<server, upstream, outputs, tools, ran, pr, issue>>

\* git push origin ${{ env.branch_name }}
AutoResolvePush ==
  /\ Running("auto_resolve", "git push")
  /\ \E pushed \in BOOLEAN :
       IF pushed
       THEN git' = [git EXCEPT !.pushed = TRUE] /\ Then("echo")
       ELSE Fail /\ UNCHANGED git
  /\ UNCHANGED <<server, upstream, outputs, tools, ran, pr, issue>>

\* echo "resolution_status=success" >> $GITHUB_OUTPUT
AutoResolveReport ==
  /\ Running("auto_resolve", "echo")
  /\ outputs' = [outputs EXCEPT !.resolution_status = "success"]
  /\ Advance
  /\ UNCHANGED <<server, upstream, job, git, tools, ran, pr, issue>>

\* const autoResolved = '${{ steps.analyze.outputs.only_lockfile }}' === 'true'
autoResolvedAlways == TRUE
autoResolved == outputs.only_lockfile = "true"

\* step "Create Pull Request": github.rest.pulls.create answers with the pull
\* request, with status 422 (caught and logged), or with another error (thrown)
CreatePullRequest ==
  /\ step = "create_pr"
  /\ IF ~If(/\ outputs.already_synced = "false"
            /\ \/ outputs.merge_status = "success"
               \/ /\ outputs.only_lockfile = "true"
                  /\ outputs.resolution_status = "success")
     THEN Skip
     ELSE /\ \E status \in {201, 422, 500} :
               /\ pr' = IF status = 201
                        THEN [created |-> TRUE, head |-> git.branch,
                              base |-> "main", notice |-> autoResolved]
                        ELSE pr
               /\ job' = IF status \in {201, 422} THEN job ELSE "failure"
          /\ ran' = ran \cup {"create_pr"}
          /\ Advance
          /\ UNCHANGED <<outputs, git, tools, issue>>
  /\ UNCHANGED <<server, upstream>>

\* step "Create Issue for Merge Conflict"
CreateIssue ==
  /\ step = "create_issue"
  /\ IF ~If(/\ outputs.already_synced = "false"
            /\ outputs.merge_status = "conflict"
            /\ outputs.only_lockfile = "false")
     THEN Skip
     ELSE /\ issue' = TRUE
          /\ ran' = ran \cup {"create_issue"}
          /\ Advance
          /\ UNCHANGED <<job, outputs, git, tools, pr>>
  /\ UNCHANGED <<server, upstream>>

NextSync ==
  \/ CreateSyncBranchAndMergeUpstream \/ MergePush
  \/ AnalyzeConflicts
  \/ SetupNode \/ SetupPnpm
  \/ AutoResolveCheckout \/ AutoResolveInstall \/ AutoResolveAdd
  \/ AutoResolveCommit \/ AutoResolvePush \/ AutoResolveReport
  \/ CreatePullRequest
  \/ CreateIssue

SpecSync == InitSync /\ [][NextSync]_vars

\* ================================================================ properties
Returned(p) == pc[p] = "returned"
IsToolResult(r) == "content" \in DOMAIN r
IsError(r) == "isError" \in DOMAIN r /\ r.isError
\* JSON.parse of the text of the only content block
Payload(p) == ret[p].content[1].text
ThrewIn(calls) == \E i \in 1..Len(calls) : calls[i].threw
Threw(p) == ThrewIn(storeCalls[p])
Ids(rows) == {r.id : r \in rows}
Names(message, id) == \E i \in 1..Len(message) : message[i] = id

\* C1: no fault escapes a tool handler: an invocation that was accepted never
\* ends by throwing, what it returns is a ToolResult, and when a store call of
\* it threw, the handler has returned a ToolResult flagged isError.
C1_NoFaultEscapes ==
  \A p \in Procs :
    /\ pc[p] # "threw"
    /\ Returned(p) => IsToolResult(ret[p])
    /\ Threw(p) => Returned(p) /\ IsToolResult(ret[p]) /\ IsError(ret[p])

\* delete_post read the row, the delete threw, and the handler returned an error
C1_Witness ==
  \E p \in Procs :
    /\ Returned(p) /\ inv[p].tool = "delete_post"
    /\ Len(storeCalls[p]) = 2 /\ storeCalls[p][2] = [op |-> "delete", threw |-> TRUE]
    /\ IsError(ret[p])

\* C2: divide(a, 0) returns exactly the error result: isError true, one text
\* block whose payload is {success: false, error: "Division by zero is not
\* allowed"}, with no result in it.
C2_DivideByZero ==
  \A p \in Procs :
    (Returned(p) /\ inv[p].tool = "divide" /\ inv[p].args.b = Fin(0)) =>
      ret[p] = [content |-> <<[type |-> "text",
                               text |-> [success |-> FALSE,
                                         error |-> <<"Division by zero is not allowed">>]]>>,
                isError |-> TRUE]

C2_Witness ==
  \E p \in Procs :
    /\ Returned(p) /\ inv[p].tool = "divide"
    /\ inv[p].args = [a |-> Fin(10), b |-> Fin(0)]
    /\ IsError(ret[p])

\* C3: on integers a and b, add, subtract and multiply return the success
\* result (no isError) whose payload is {success: true, result, operation,
\* operands: {a, b}} with result a+b, a-b, a*b, operation the tool's name and
\* the operands as given.
C3_Arithmetic ==
  \A p \in Procs :
    (/\ Returned(p)
     /\ inv[p].tool \in {"add", "subtract", "multiply"}
     /\ IsInteger(inv[p].args.a) /\ IsInteger(inv[p].args.b)) =>
      LET a == inv[p].args.a.n
          b == inv[p].args.b.n
          expected == CASE inv[p].tool = "add" -> a + b
                        [] inv[p].tool = "subtract" -> a - b
                        [] inv[p].tool = "multiply" -> a * b
      IN  ret[p] = [content |-> <<[type |-> "text",
                                   text |-> [success |-> TRUE,
                                             result |-> Fin(expected),
                                             operation |-> inv[p].tool,
                                             operands |-> [a |-> Fin(a), b |-> Fin(b)]]]>>]

\* add(2, 3) gave 5
C3_Witness ==
  \E p \in Procs :
    /\ Returned(p) /\ inv[p].tool = "add"
    /\ inv[p].args = [a |-> Fin(2), b |-> Fin(3)]
    /\ Payload(p).result = Fin(5)

\* C4: divide takes the error branch exactly when b is 0; for integers a and
\* b # 0 with b dividing a it returns the success result (no isError) with
\* result the quotient q (q * b = a), operation "divide" and operands {a, b}.
C4_Divide ==
  \A p \in Procs :
    (Returned(p) /\ inv[p].tool = "divide") =>
      LET a == inv[p].args.a
          b == inv[p].args.b
      IN  /\ IsError(ret[p]) <=> b = Fin(0)
          /\ (IsInteger(a) /\ IsInteger(b) /\ b.n # 0) =>
               \A q \in -Abs(a.n)..Abs(a.n) :
                 q * b.n = a.n =>
                   ret[p] = [content |-> <<[type |-> "text",
                                            text |-> [success |-> TRUE,
                                                      result |-> Fin(q),
                                                      operation |-> "divide",
                                                      operands |-> [a |-> a, b |-> b]]]>>]

\* divide(10, 2) gave 5
C4_Witness ==
  \E p \in Procs :
    /\ Returned(p) /\ inv[p].tool = "divide"
    /\ inv[p].args = [a |-> Fin(10), b |-> Fin(2)]
    /\ ~IsError(ret[p]) /\ Payload(p).result = Fin(5)

\* C5: round trip: a create_post that succeeds returns a row with the title
\* and content it was given and an identifier under which the row is stored;
\* and a get_post of the identifier of a created row, no delete of it having
\* taken effect, succeeds (its store call answering) with a post of the same
\* id, title and content.
C5_RoundTrip ==
  \A p \in Procs :
    /\ (Returned(p) /\ inv[p].tool = "create_post" /\ ~Threw(p)) =>
         /\ ~IsError(ret[p]) /\ Payload(p).success
         /\ "post" \in DOMAIN Payload(p)
         /\ Payload(p).post.title = inv[p].args.title
         /\ Payload(p).post.content = inv[p].args.content
         /\ \E r \in created : r.id = Payload(p).post.id
    /\ (Returned(p) /\ inv[p].tool = "get_post" /\ ~Threw(p)) =>
         \A r \in created :
           (r.id = inv[p].args.id /\ r.id \in Ids(store)) =>
             /\ ~IsError(ret[p]) /\ Payload(p).success
             /\ "post" \in DOMAIN Payload(p)
             /\ Payload(p).post.id = r.id
             /\ Payload(p).post.title = r.title
             /\ Payload(p).post.content = r.content

\* a get_post of a created row succeeded while another row had been deleted
C5_Witness ==
  \E p \in Procs :
    /\ Returned(p) /\ inv[p].tool = "get_post" /\ ~IsError(ret[p])
    /\ inv[p].args.id \in Ids(created)
    /\ created # store

\* C6: get_post(id), its store call answering: when no row of the store has
\* the identifier, the result is flagged isError with payload {success: false,
\* error: m}, m naming id; when a row has it, the result is the success result
\* carrying exactly that row.
C6_Get ==
  \A p \in Procs :
    (Returned(p) /\ inv[p].tool = "get_post" /\ ~Threw(p)) =>
      LET id == inv[p].args.id
      IN  IF id \in Ids(store)
          THEN \A r \in store :
                 r.id = id =>
                   ret[p] = [content |-> <<[type |-> "text",
                               text |-> [success |-> TRUE,
                                         post |-> [id |-> r.id, title |-> r.title,
                                                   content |-> r.content,
                                                   createdAt |-> toISOString(r.createdAt)]]]>>]
          ELSE /\ IsError(ret[p])
               /\ DOMAIN Payload(p) = {"success", "error"}
               /\ Payload(p).success = FALSE
               /\ Names(Payload(p).error, id)

\* a get_post of an identifier that is not in a store holding another row
C6_Witness ==
  \E p \in Procs :
    /\ Returned(p) /\ inv[p].tool = "get_post" /\ ~Threw(p)
    /\ inv[p].args.id \notin Ids(store) /\ store # {}
    /\ IsError(ret[p])

\* C7: when delete_post's read of an identifier that is in no row of the store
\* answers, the handler returns at once a result flagged isError whose message
\* names the identifier; its only store call is that read, and the rows of the
\* store are as before.
C7_DeleteMissing ==
  [][\A p \in Procs :
       (/\ pc[p] = "findFirst" /\ inv[p].tool = "delete_post"
        /\ inv[p].args.id \notin Ids(store)
        /\ pc'[p] # pc[p] /\ ~ThrewIn(storeCalls'[p])) =>
         /\ pc'[p] = "returned"
         /\ IsError(ret'[p])
         /\ ret'[p].content[1].text.success = FALSE
         /\ Names(ret'[p].content[1].text.error, inv[p].args.id)
         /\ storeCalls'[p] = <<[op |-> "findFirst", threw |-> FALSE]>>
         /\ store' = store]_vars

\* delete_post of an identifier that is not in a store holding another row
C7_Witness ==
  \E p \in Procs :
    /\ Returned(p) /\ inv[p].tool = "delete_post" /\ ~Threw(p)
    /\ IsError(ret[p]) /\ inv[p].args.id \notin Ids(created)
    /\ Len(storeCalls[p]) = 1 /\ store # {}

\* C8: a list_posts whose limit is not an integer, is below 1 or above 100 is
\* rejected at validation (naming limit) and makes no store call.
LimitOutOfBounds(x) ==
  \/ x.t # "number"
  \/ ~(x.v.k = "fin" /\ x.v.d = 1)
  \/ x.v.n < 1
  \/ x.v.n > 100

C8_ListLimit ==
  \A p \in Procs :
    (/\ inv[p].tool = "list_posts" /\ inv[p].tool \in registerTool(handler)
     /\ "limit" \in DOMAIN inv[p].raw
     /\ LimitOutOfBounds(inv[p].raw.limit)) =>
      /\ pc[p] = "rejected"
      /\ ret[p] = [rejected |-> "InvalidArguments", field |-> "limit"]
      /\ storeCalls[p] = <<>>

\* list_posts with limit 101 was rejected
C8_Witness ==
  \E p \in Procs :
    /\ pc[p] = "rejected" /\ inv[p].tool = "list_posts"
    /\ inv[p].tool \in registerTool(handler)
    /\ inv[p].raw = [limit |-> RawNum(Fin(101))]

\* C9: list_posts is idempotent: two invocations with the same limit (given or
\* defaulted) whose reads no change of the table separates return the same
\* result: the same sequence of posts and the same count.
C9_ListIdempotent ==
  \A x, y \in listed : x.limit = y.limit => x.result = y.result

\* a list_posts repeated a limit and listed two rows created at the same time
C9_Witness ==
  \E p \in Procs :
    /\ Returned(p) /\ inv[p].tool = "list_posts" /\ relisted[p]
    /\ Payload(p).count = 2
    /\ \E r, t \in store : r # t /\ r.createdAt = t.createdAt

\* C10: every ToolResult a handler returns has exactly one content block, of
\* type text, whose text is a JSON object (it has the success key).
C10_ContentNonEmpty ==
  \A p \in Procs :
    Returned(p) =>
      /\ "content" \in DOMAIN ret[p]
      /\ Len(ret[p].content) = 1
      /\ ret[p].content[1].type = "text"
      /\ "success" \in DOMAIN ret[p].content[1].text

\* list_posts returned from its catch block
C10_Witness ==
  \E p \in Procs :
    /\ Returned(p) /\ inv[p].tool = "list_posts" /\ Threw(p)
    /\ Len(ret[p].content) = 1

\* the row of the table a listed post came from
RowOf(post) == CHOOSE r \in store : r.id = post.id
ListAnswered(p) == Returned(p) /\ inv[p].tool = "list_posts" /\ ~Threw(p)

\* C11: list_posts returns the posts newest first: of two posts it returns the
\* one created later comes earlier, and no row it leaves out was created later
\* than a row it returns.
C11_NewestFirst ==
  \A p \in Procs :
    ListAnswered(p) =>
      LET posts == Payload(p).posts
      IN  /\ \A i, j \in 1..Len(posts) :
               RowOf(posts[i]).createdAt > RowOf(posts[j]).createdAt => i < j
          /\ \A r \in store, i \in 1..Len(posts) :
               r.id \notin {posts[k].id : k \in 1..Len(posts)} =>
                 r.createdAt <= RowOf(posts[i]).createdAt

\* the limit the caller asked for, 10 when the caller gave none
AskedLimit(p) ==
  IF "limit" \in DOMAIN inv[p].raw THEN inv[p].raw.limit.v.n ELSE 10

\* C12: list_posts returns min(limit, number of rows) posts and a count equal
\* to the number of posts it returns; a limit left out is 10 by the time the
\* store is queried.
C12_ListCount ==
  \A p \in Procs :
    /\ (pc[p] = "findMany" \/ ListAnswered(p)) => inv[p].args.limit = Fin(AskedLimit(p))
    /\ ListAnswered(p) =>
         /\ Len(Payload(p).posts) = Min({AskedLimit(p), Cardinality(store)})
         /\ Payload(p).count = Len(Payload(p).posts)

\* list_posts with limit 1 returned one of the two rows of the table
C12_Witness ==
  \E p \in Procs :
    /\ ListAnswered(p) /\ inv[p].raw = [limit |-> RawNum(Fin(1))]
    /\ Cardinality(store) = 2 /\ Payload(p).count = 1

ArithmeticTools == {"add", "subtract", "multiply", "divide"}
PostTools == {"list_posts", "get_post", "create_post", "delete_post"}
Accepted(p) == "args" \in DOMAIN inv[p]

\* C13: an invocation of list_posts, get_post, create_post or delete_post makes
\* exactly one store call: never a second one, and one by the time it returns.
C13_OneStoreCall ==
  \A p \in Procs :
    (Accepted(p) /\ inv[p].tool \in PostTools) =>
      /\ Len(storeCalls[p]) <= 1
      /\ Returned(p) => Len(storeCalls[p]) = 1

\* C14: when delete_post(id) returns success, the row with that identifier was
\* in the table and this invocation's delete took it (and nothing else) out,
\* the payload carries the message naming id and that row as it was just
\* before the delete, and no row with the identifier is left for a get_post.
C14_DeleteSuccess ==
  [][\A p \in Procs :
       (pc[p] = "delete" /\ pc'[p] = "returned" /\ ~IsError(ret'[p])) =>
         LET id == inv[p].args.id
         IN  /\ \E r \in store :
                  /\ r.id = id
                  /\ store' = store \ {r}
                  /\ ret'[p].content[1].text =
                       [success |-> TRUE,
                        message |-> <<"Post ", id, " deleted successfully">>,
                        deletedPost |-> JSONpost(r)]
             /\ findFirst(store', id) = Undefined]_vars

\* the message of what a store call threw: error.message, or String(error)
MessageOf(error) == IF error.isErrorObject THEN error.message ELSE error.value

\* C15: when a store call of a post tool throws a fault with message m, the
\* invocation returns the result flagged isError whose payload is exactly
\* {success: false, error: m}; m is String(fault) for a fault that is no Error.
C15_StoreFault ==
  \A p \in Procs :
    Threw(p) =>
      /\ Returned(p)
      /\ ret[p] = [content |-> <<[type |-> "text",
                                  text |-> [success |-> FALSE,
                                            error |-> <<MessageOf(thrown[p])>>]]>>,
                   isError |-> TRUE]

\* the insert of create_post threw a value that is no Error
C15_Witness ==
  \E p \in Procs :
    /\ Returned(p) /\ inv[p].tool = "create_post"
    /\ storeCalls[p] = <<[op |-> "insert", threw |-> TRUE]>>
    /\ ~thrown[p].isErrorObject
    /\ Payload(p).error = <<"ECONNRESET">>

\* the payload's success is false exactly when the result is flagged isError,
\* true exactly when it has no isError, and a flagged result carries no
\* result, post or posts
NoPartialSuccess(r) ==
  /\ IsToolResult(r)
  /\ r.content[1].text.success = FALSE <=> IsError(r)
  /\ r.content[1].text.success = TRUE <=> "isError" \notin DOMAIN r
  /\ IsError(r) => DOMAIN r.content[1].text \cap {"result", "post", "posts"} = {}

\* C16: no partial success: every result a tool returns satisfies
\* NoPartialSuccess, and a step of an invocation that changes the table is the
\* step in which it returns a result whose success is true.
C16_NoPartialSuccess ==
  [][\A p \in Procs :
       /\ pc'[p] = "returned" => NoPartialSuccess(ret'[p])
       /\ (pc'[p] # pc[p] /\ store' # store) =>
            /\ pc'[p] = "returned"
            /\ ret'[p].content[1].text.success = TRUE]_vars

\* the delete of delete_post threw: flagged result, the row still in the table
C16_Witness ==
  \E p \in Procs :
    /\ Returned(p) /\ inv[p].tool = "delete_post" /\ Threw(p)
    /\ inv[p].args.id \in Ids(store)
    /\ IsError(ret[p]) /\ Payload(p).success = FALSE

\* C17: a call of a tool name the handler has not registered is rejected as an
\* unknown tool, which is no ToolResult; no handler runs for it and it makes no
\* store call.
C17_UnknownTool ==
  \A p \in Procs :
    (/\ inv[p].tool # "none"
     /\ inv[p].tool \notin (IF handler = "packages/mcp/src/index.ts"
                            THEN ArithmeticTools ELSE PostTools)) =>
      /\ pc[p] = "rejected"
      /\ ret[p] = [rejected |-> "UnknownTool"]
      /\ ~IsToolResult(ret[p])
      /\ ~Accepted(p)
      /\ storeCalls[p] = <<>>

\* unknown_tool_xyz was rejected while a delete_post was waiting for the store
C17_Witness ==
  \E p, q \in Procs :
    /\ pc[p] = "rejected" /\ inv[p].tool = "unknown_tool_xyz"
    /\ pc[q] = "delete" /\ store # {}

Unconfigured(p) ==
  CASE inv[p].tool \in ArithmeticTools -> RunSync(inv[p].tool, inv[p].args)
    [] Threw(p) -> catch(thrown[p])
    [] inv[p].tool = "list_posts" -> listPostsResult(<<>>)
    [] OTHER -> notFoundResult(inv[p].args.id)

\* C19: createMcpHandler hands every configuration value it was given to the
\* transport unchanged, a basePath left out becomes "/api" and a maxDuration
\* left out becomes 60; the result of a tool call is the same whatever the
\* configuration and the environment.
C19_Config ==
  /\ \A f \in {"redisUrl", "basePath", "maxDuration", "verboseLogs"} :
       f \in DOMAIN config => f \in DOMAIN options /\ options[f] = config[f]
  /\ "basePath" \notin DOMAIN config => options.basePath = "/api"
  /\ "maxDuration" \notin DOMAIN config => options.maxDuration = Fin(60)
  /\ \A p \in Procs : Returned(p) => ret[p] = Unconfigured(p)

\* a handler configured with maxDuration 0 and no basePath returned a result
C19_Witness ==
  \E p \in Procs :
    /\ Returned(p) /\ inv[p].tool = "divide"
    /\ "maxDuration" \in DOMAIN config /\ config.maxDuration = Fin(0)
    /\ options.maxDuration = Fin(0)
    /\ "basePath" \notin DOMAIN config /\ options.basePath = "/api"

\* the merge conflicted and pnpm-lock.yaml is the only conflicted file
LockfileOnlyConflict ==
  upstream.merge = "conflict" /\ upstream.files = {"pnpm-lock.yaml"}
\* the run has come to the auto-resolve step and decided whether it runs
AutoResolveDecided ==
  \/ step \in {"create_pr", "create_issue", "done"}
  \/ step = "auto_resolve" /\ cmd # "start"

\* C20: in a run of sync-upstream the auto-resolve step runs if and only if
\* the merge conflicted with pnpm-lock.yaml the only conflicted file; the merge
\* it runs on has not been aborted; and when resolution_status=success is
\* reported the merge commit has been made and the branch pushed.
C20_AutoResolve ==
  /\ "auto_resolve" \in ran <=> (AutoResolveDecided /\ LockfileOnlyConflict)
  /\ "auto_resolve" \in ran => ~git.aborted
  /\ outputs.resolution_status = "success" =>
       /\ "auto_resolve" \in ran
       /\ git.committed /\ ~git.merging /\ git.unmerged = {}
       /\ git.pushed

\* a run whose lockfile conflict was resolved, pushed and reported
C20_Witness ==
  /\ step = "done" /\ "auto_resolve" \in ran
  /\ outputs.merge_status = "conflict"
  /\ outputs.resolution_status = "success"
  /\ git.pushed /\ ~git.aborted

\* the merge conflicted in some file other than pnpm-lock.yaml
OtherFileConflict ==
  upstream.merge = "conflict" /\ upstream.files # {"pnpm-lock.yaml"}
AnalyzeOver == step \notin {"merge", "analyze"}

\* C21: when the merge conflicts and a file other than pnpm-lock.yaml is among
\* the conflicted files, the analyze step aborts the merge, the auto-resolve
\* step and the pull-request step never run, no pull request exists, and the
\* run ends with the issue for manual resolution created.
C21_ManualFlow ==
  OtherFileConflict =>
    /\ AnalyzeOver => git.aborted /\ ~git.merging /\ outputs.only_lockfile = "false"
    /\ ran \cap {"setup_node", "setup_pnpm", "auto_resolve", "create_pr"} = {}
    /\ ~pr.created /\ ~git.pushed
    /\ step = "done" => issue /\ job = "success"

\* package.json and pnpm-lock.yaml conflicted: merge aborted, issue created
C21_Witness ==
  /\ step = "done" /\ issue /\ git.aborted
  /\ upstream.merge = "conflict"
  /\ upstream.files = {"package.json", "pnpm-lock.yaml"}

\* the outcomes of a run that others can see
Outcomes ==
  {o \in {"pull request", "issue", "failed"} :
     \/ o = "pull request" /\ pr.created
     \/ o = "issue" /\ issue
     \/ o = "failed" /\ job = "failure"}

\* C22: no silent failures: a run that was not already synced has, when it
\* ends, exactly one visible outcome: a pull request created, an issue
\* created, or the workflow marked failed.
C22_OneOutcome ==
  (step = "done" /\ outputs.already_synced = "false") => Cardinality(Outcomes) = 1

\* C23: the pull request of a run carries the auto-resolution notice if and
\* only if the run resolved a pnpm-lock.yaml conflict (its auto-resolve step
\* ran and reported success); the pull request of a clean merge never does.
C23_Notice ==
  pr.created =>
    /\ pr.notice <=> ("auto_resolve" \in ran /\ outputs.resolution_status = "success")
    /\ upstream.merge = "clean" => ~pr.notice
    /\ pr.notice => LockfileOnlyConflict

\* a pull request with the notice, after a resolved lockfile conflict
C23_Witness ==
  /\ pr.created /\ pr.notice
  /\ "auto_resolve" \in ran /\ git.lockfile = "installed"

\* C30: a run never creates both a pull request and a merge-conflict issue,
\* and when it creates the pull request the sync branch has been pushed: by
\* the merge step after a clean merge, or by the auto-resolve step after it
\* made the merge commit.
C30_PullRequestAfterPush ==
  /\ ~(pr.created /\ issue)
  /\ pr.created =>
       /\ git.pushed /\ git.committed /\ pr.head = git.branch
       /\ \/ upstream.merge = "clean" /\ "auto_resolve" \notin ran
          \/ LockfileOnlyConflict /\ "auto_resolve" \in ran

\* the pull request of a clean merge whose branch was pushed
C30_Witness ==
  /\ pr.created /\ upstream.merge = "clean"
  /\ git.pushed /\ pr.head = BRANCH_NAME /\ ~issue

\* C24: no retries: when a store call of a post tool faults, that call is the
\* last store call of the invocation and its only faulted one, and the
\* invocation has returned one result, flagged isError, with the fault's
\* message in it once.
C24_NoRetry ==
  \A p \in Procs :
    \A i \in 1..Len(storeCalls[p]) :
      storeCalls[p][i].threw =>
        /\ i = Len(storeCalls[p])
        /\ Returned(p) /\ IsError(ret[p])
        /\ Len(ret[p].content) = 1
        /\ Payload(p).error = <<MessageOf(thrown[p])>>

\* the read of delete_post threw an Error: one store call, error returned
C24_Witness ==
  \E p \in Procs :
    /\ Returned(p) /\ inv[p].tool = "delete_post"
    /\ storeCalls[p] = <<[op |-> "findFirst", threw |-> TRUE]>>
    /\ thrown[p].isErrorObject /\ store # {}

\* raw arguments a post tool's schema refuses: a title or content that is
\* empty or longer than 256 characters, an id that is no UUID
BadText(x) == x.t = "string" /\ (Len(x.v) = 0 \/ Len(x.v) > 256)
RefusedPostArguments(i) ==
  /\ "raw" \in DOMAIN i
  /\ \/ i.tool = "create_post" /\ (BadText(i.raw.title) \/ BadText(i.raw.content))
     \/ i.tool \in {"get_post", "delete_post"} /\ i.raw.id.v \notin Uuids

\* C25: validation precedes the handler: a create_post whose title or content
\* is empty or longer than 256 characters, and a get_post or delete_post whose
\* id is no UUID, end rejected for the offending field in the step in which
\* they arrive, with no store call made and the table as it was.
C25_ValidationFirst ==
  [][\A p \in Procs :
       (pc[p] = "idle" /\ pc'[p] # "idle" /\ RefusedPostArguments(inv'[p])) =>
         /\ pc'[p] = "rejected"
         /\ ret'[p].rejected = "InvalidArguments"
         /\ ret'[p].field = (CASE inv'[p].tool # "create_post" -> "id"
                               [] BadText(inv'[p].raw.title) -> "title"
                               [] OTHER -> "content")
         /\ storeCalls'[p] = <<>>
         /\ store' = store]_vars

\* a create_post with content of 257 characters was rejected, a row in the table
C25_Witness ==
  \E p \in Procs :
    /\ pc[p] = "rejected" /\ inv[p].tool = "create_post"
    /\ "raw" \in DOMAIN inv[p] /\ Len(inv[p].raw.content.v) = 257
    /\ ret[p] = [rejected |-> "InvalidArguments", field |-> "content"]
    /\ store # {}

\* the payload a tool call is bound to give by its arguments and the rows of
\* the table alone
Determined(tool, args, rows) ==
  CASE tool = "add" ->
         [success |-> TRUE, result |-> JSONnumber(JSAdd(args.a, args.b)),
          operation |-> "add",
          operands |-> [a |-> JSONnumber(args.a), b |-> JSONnumber(args.b)]]
    [] tool = "subtract" ->
         [success |-> TRUE, result |-> JSONnumber(JSSub(args.a, args.b)),
          operation |-> "subtract",
          operands |-> [a |-> JSONnumber(args.a), b |-> JSONnumber(args.b)]]
    [] tool = "multiply" ->
         [success |-> TRUE, result |-> JSONnumber(JSMul(args.a, args.b)),
          operation |-> "multiply",
          operands |-> [a |-> JSONnumber(args.a), b |-> JSONnumber(args.b)]]
    [] tool = "divide" ->
         IF args.b = Fin(0)
         THEN [success |-> FALSE, error |-> <<"Division by zero is not allowed">>]
         ELSE [success |-> TRUE, result |-> JSONnumber(JSDiv(args.a, args.b)),
               operation |-> "divide",
               operands |-> [a |-> JSONnumber(args.a), b |-> JSONnumber(args.b)]]
    [] tool = "get_post" ->
         IF args.id \in Ids(rows)
         THEN [success |-> TRUE,
               post |-> JSONpost(CHOOSE r \in rows : r.id = args.id)]
         ELSE [success |-> FALSE,
               error |-> <<"Post with ID ", args.id, " not found">>]
    [] tool = "list_posts" ->
         LET n == Min({args.limit.n, Cardinality(rows)})
             q == CHOOSE q \in [1..n -> rows] :
                    /\ \A i, j \in 1..n : i < j => UuidIndex(q[i].id) > UuidIndex(q[j].id)
                    /\ \A r \in rows : (\A i \in 1..n : q[i] # r) =>
                                         \A i \in 1..n : UuidIndex(r.id) < UuidIndex(q[i].id)
         IN  [success |-> TRUE, count |-> n, posts |-> [i \in 1..n |-> JSONpost(q[i])]]

\* C26: add, subtract, multiply, divide, get_post and list_posts are
\* deterministic and stateless: whatever ran before, the result of a call
\* whose store call answers is the one its arguments and the rows of the table
\* determine, flagged isError exactly when that payload is an error; a
\* request slot that is free again holds nothing of the call it served.
C26_Deterministic ==
  \A p \in Procs :
    /\ (/\ Returned(p) /\ ~Threw(p)
        /\ inv[p].tool \in ArithmeticTools \cup {"get_post", "list_posts"}) =>
         LET payload == Determined(inv[p].tool, inv[p].args, store)
         IN  ret[p] = IF payload.success
                      THEN [content |-> <<[type |-> "text", text |-> payload]>>]
                      ELSE [content |-> <<[type |-> "text", text |-> payload]>>,
                            isError |-> TRUE]
    /\ pc[p] = "idle" =>
         /\ inv[p] = NoInvocation /\ ret[p] = NoResult
         /\ deletedPost[p] = Undefined /\ storeCalls[p] = <<>>

\* list_posts answered on a table from which one of two rows had been deleted
C26_Witness ==
  \E p \in Procs :
    /\ ListAnswered(p) /\ Payload(p).count = 1
    /\ Cardinality(created) = 2 /\ Cardinality(store) = 1

\* C27: frame of the reading tools: an arithmetic tool never waits for the
\* store and makes no store call, get_post and list_posts make only reading
\* calls, and no step of an invocation of these six tools changes the rows of
\* the table.
C27_ReadersFrame ==
  [][\A p \in Procs :
       (/\ pc'[p] # pc[p] /\ pc'[p] # "idle"
        /\ inv'[p].tool \in ArithmeticTools \cup {"get_post", "list_posts"}) =>
         /\ store' = store
         /\ inv'[p].tool \in ArithmeticTools =>
              pc'[p] \in {"returned", "rejected"} /\ storeCalls'[p] = <<>>
         /\ \A i \in 1..Len(storeCalls'[p]) :
              storeCalls'[p][i].op \in {"findMany", "findFirst"}]_vars

\* get_post found its row and returned it, the row still in the table
C27_Witness ==
  \E p \in Procs :
    /\ Returned(p) /\ inv[p].tool = "get_post" /\ ~IsError(ret[p])
    /\ storeCalls[p] = <<[op |-> "findFirst", threw |-> FALSE]>>
    /\ inv[p].args.id \in Ids(store)

\* request p returns the success payload of delete_post in this step
DeleteSucceeds(p) ==
  /\ pc[p] = "delete" /\ pc'[p] = "returned"
  /\ ~IsError(ret'[p]) /\ ret'[p].content[1].text.success

\* C28: of two concurrent delete_post calls on the identifier of a row in the
\* table at most one returns the success payload with the deleted row: a
\* delete_post never returns success in a step that removes nothing, the row
\* having gone to the other call.
C28_OneDeleteSucceeds ==
  [][\A p \in Procs : DeleteSucceeds(p) => store' # store]_vars

\* C29: frame of the writes: a delete_post that returns success takes no row
\* out of the table but the one with its identifier, a create_post that
\* returns success adds exactly one row, under an identifier no row has or
\* had, and leaves the other rows as they were; the identifiers of the rows
\* of the table stay pairwise distinct.
C29_WritersFrame ==
  [][/\ \A p \in Procs :
          /\ DeleteSucceeds(p) =>
               /\ store' \subseteq store
               /\ \A r \in store \ store' : r.id = inv[p].args.id
          /\ (pc[p] = "insert" /\ pc'[p] = "returned" /\ ~IsError(ret'[p])) =>
               \E r \in store' :
                 /\ r \notin store /\ store' = store \cup {r}
                 /\ r.id \notin Ids(store) \cup Ids(created)
                 /\ ret'[p].content[1].text.post = JSONpost(r)
     /\ \A r, t \in store' : r.id = t.id => r = t]_vars

\* delete_post took one of two rows out of the table and left the other
C29_Witness ==
  \E p \in Procs :
    /\ Returned(p) /\ inv[p].tool = "delete_post" /\ ~IsError(ret[p])
    /\ Cardinality(created) = 2 /\ Cardinality(store) = 1
    /\ inv[p].args.id \notin Ids(store)
====
